---- MODULE Spec2Model ----
(***************************************************************************)
(* Model of the Portals MCP server: src/src/manager.ts (PortalsManager)    *)
(* and src/src/index.ts (request handlers, main).                          *)
(*                                                                         *)
(* Text is modelled as a sequence of atoms (TLA+ strings) whose            *)
(* concatenation is the JavaScript string.  Provider ids, titles,          *)
(* operation ids and tool names are spelled one character per atom, so     *)
(* that slice, toLowerCase and the regular-expression replacements are     *)
(* computed character by character; messages are spelled in larger atoms.  *)
(* An optional value (undefined | v) is the sequence <<>> or <<v>>.        *)
(***************************************************************************)
EXTENDS Integers, Sequences, FiniteSets, TLC

VARIABLES env, portals, proc, task, published

vars == <<env, portals, proc, task, published>>

None == <<>>
Some(v) == <<v>>

(* --------------------------- string helpers --------------------------- *)

UpperSeq == <<"A","B","C","D","E","F","G","H","I","J","K","L","M",
              "N","O","P","Q","R","S","T","U","V","W","X","Y","Z">>
LowerSeq == <<"a","b","c","d","e","f","g","h","i","j","k","l","m",
              "n","o","p","q","r","s","t","u","v","w","x","y","z">>
Digits == {"0","1","2","3","4","5","6","7","8","9"}

\* String.prototype.toLowerCase on one character.
LowerChar(c) ==
    IF \E i \in 1..26 : UpperSeq[i] = c
    THEN LowerSeq[CHOOSE i \in 1..26 : UpperSeq[i] = c]
    ELSE c

toLowerCase(s) == [i \in 1..Len(s) |-> LowerChar(s[i])]

\* The character class [a-z0-9].
IsAlnum(c) == c \in Digits \/ \E i \in 1..26 : LowerSeq[i] = c

\* s.replace(/[^a-z0-9]+/g, '_'): every maximal run of characters outside
\* [a-z0-9] becomes one underscore.
RECURSIVE ReplaceRuns(_)
ReplaceRuns(s) ==
    IF s = <<>> THEN <<>>
    ELSE IF IsAlnum(s[1]) THEN <<s[1]>> \o ReplaceRuns(Tail(s))
    ELSE IF Len(s) > 1 /\ ~IsAlnum(s[2]) THEN ReplaceRuns(Tail(s))
    ELSE <<"_">> \o ReplaceRuns(Tail(s))

\* s.replace(/^_|_$/g, ''): one leading and one trailing underscore go.
StripEnds(s) ==
    LET a == IF s # <<>> /\ s[1] = "_" THEN Tail(s) ELSE s
    IN  IF a # <<>> /\ a[Len(a)] = "_" THEN SubSeq(a, 1, Len(a) - 1) ELSE a

\* s.slice(0, n)
Slice0(s, n) == SubSeq(s, 1, IF Len(s) < n THEN Len(s) ELSE n)

\* String.prototype.includes: needle is a contiguous part of hay.
Includes(hay, needle) ==
    \E i \in 0..(Len(hay) - Len(needle)) :
        \A j \in 1..Len(needle) : hay[i + j] = needle[j]

RECURSIVE Flatten(_)
Flatten(ss) == IF ss = <<>> THEN <<>> ELSE Head(ss) \o Flatten(Tail(ss))

RECURSIVE SelectSeqOf(_, _)
\* s restricted to the elements that belong to the set keep
SelectSeqOf(s, keep) ==
    IF s = <<>> THEN <<>>
    ELSE (IF Head(s) \in keep THEN <<Head(s)>> ELSE <<>>) \o SelectSeqOf(Tail(s), keep)

Range(s) == {s[i] : i \in 1..Len(s)}

(* ------------------------- whitelist parsing -------------------------- *)

\* s.split(','): the pieces between commas, empty pieces included.
RECURSIVE SplitComma(_)
SplitComma(s) ==
    IF \A i \in 1..Len(s) : s[i] # ","
    THEN <<s>>
    ELSE LET k == CHOOSE i \in 1..Len(s) :
                      s[i] = "," /\ \A j \in 1..(i - 1) : s[j] # ","
         IN  <<SubSeq(s, 1, k - 1)>> \o SplitComma(SubSeq(s, k + 1, Len(s)))

\* .filter(Boolean) on an array of strings: the empty string is falsy.
FilterBooleanNoop(pieces) == pieces
FilterBoolean(pieces) == SelectSeqOf(pieces, Range(pieces) \ {<<>>})

\* process.env.PORTALS_WHITELIST?.split(',').filter(Boolean) || []
ParseWhitelist(e) ==
    IF e = None THEN <<>> ELSE FilterBoolean(SplitComma(e[1]))

(* ------------------- providers and their documents --------------------- *)

\* Provider ids as they appear in PORTALS_WHITELIST.  IdA and IdB share
\* their first four characters; IdC does not.
IdA == <<"a","b","c","d","1">>
IdB == <<"a","b","c","d","2">>
IdC == <<"w","x","y","z","3">>

\* Values of process.env.PORTALS_WHITELIST: unset, "", ",", "abcd1",
\* "abcd1,abcd2", "abcd2,,abcd1", "wxyz3,abcd1", "abcd1,abcd1".
EnvValues ==
    { None,
      Some(<<>>),
      Some(<<",">>),
      Some(IdA),
      Some(IdA \o <<",">> \o IdB),
      Some(IdB \o <<",", ",">> \o IdA),
      Some(IdC \o <<",">> \o IdA),
      Some(IdA \o <<",">> \o IdA) }

\* Titles of the on-chain records: "Web", "web!", "Go 2".
TitleWeb  == <<"W","e","b">>
TitleWeb2 == <<"w","e","b","!">>
TitleGo   == <<"G","o"," ","2">>

\* The titles provider id may carry when it is fetched (provider B is the
\* one that renames itself between fetches).
TitlesOf(id) ==
    IF id = IdA THEN {TitleWeb}
    ELSE IF id = IdB THEN {TitleWeb2, TitleGo}
    ELSE {TitleGo}

\* Fields of the on-chain record that the registry only carries along.
DescOf(id)  == <<"about ">> \o id
UrlOf(id)   == IF id = IdA THEN <<"https://", "host/">> \o id \o <<"/">>
               ELSE <<"https://", "host/">> \o id
VaultOf(id) == <<"vault-">> \o id

\* JSON Schemas of request bodies: the list of required properties.
DefaultSchema == [required |-> <<>>]
SchemaQ  == [required |-> <<"q">>]
SchemaQN == [required |-> <<"q", "n">>]

OpSearch == <<"s","e","a","r","c","h">>
OpPost   == <<"p","o","s","t">>
OpParams == <<"p","r","m">>

\* One (path, key, value) entry of openapi.paths in Object.entries order.
\* isNull: the value is null, so reading a property of it throws.
Entry(path, method, opId, summary, description, schema) ==
    [path |-> path, method |-> method, isNull |-> FALSE, operationId |-> opId,
     summary |-> summary, description |-> description, schema |-> schema]
NullEntry(path, method) ==
    [path |-> path, method |-> method, isNull |-> TRUE, operationId |-> None,
     summary |-> None, description |-> None, schema |-> None]

\* { paths: {} }
DocEmpty == <<>>
\* one operation with an operationId, a summary and a JSON body schema
DocSearch == << Entry("/search", "post", Some(OpSearch), Some(<<"Search">>), None, Some(SchemaQ)) >>
\* the same operationId declared on two operations, the first with a body
\* schema of two required properties, the second without a body
DocDup == << Entry("/a", "post", Some(OpSearch), None, Some(<<"first">>), Some(SchemaQN)),
             Entry("/a", "put",  Some(OpSearch), Some(<<"second">>), None, None) >>
\* metadata keys beside a verb: 'parameters' and 'servers' values that carry
\* an operationId field, and a verb without operationId
DocMeta == << Entry("/m", "parameters", Some(OpParams), None, None, None),
              Entry("/m", "servers", Some(OpPost), None, None, None),
              Entry("/m", "get", None, Some(<<"unnamed">>), None, None) >>
\* a null operation after a well-formed one
DocNull == << Entry("/n", "get", Some(OpSearch), None, None, None),
              NullEntry("/n", "post") >>

Docs == {DocEmpty, DocSearch, DocDup, DocMeta, DocNull}

\* What axios.get(schemaUrl, { timeout: 5000 }) can do.
SchemaOutcomes == {[kind |-> "fail"], [kind |-> "timeout"]}
                  \cup {[kind |-> "doc", doc |-> d] : d \in Docs}

(* ------------------------------ registry ------------------------------ *)

Truthy(opt) == opt # None /\ opt[1] # <<>>

\* metadata.url.endsWith('/') ? `${url}openapi.json` : `${url}/openapi.json`
SchemaUrl(url) ==
    IF url # <<>> /\ url[Len(url)] = "/" THEN url \o <<"openapi.json">>
    ELSE url \o <<"/", "openapi.json">>

\* The body of the inner loop: the descriptor pushed for one entry.
ToolOfEntry(e, mdDescription) ==
    [name |-> e.operationId[1],
     description |-> IF Truthy(e.summary) THEN e.summary[1]
                     ELSE IF Truthy(e.description) THEN e.description[1]
                     ELSE mdDescription,
     parameters |-> IF e.schema # None THEN e.schema[1] ELSE DefaultSchema]

\* if (method === 'parameters' || !op.operationId) continue;
SkipsEntry(e) == e.method = "parameters" \/ ~Truthy(e.operationId)

\* The two nested loops over openapi.paths.  threw: a TypeError left the
\* loops (a null operation whose key is not 'parameters').
RECURSIVE CollectTools(_, _, _)
CollectTools(doc, mdDescription, acc) ==
    IF doc = <<>> THEN [threw |-> FALSE, tools |-> acc]
    ELSE LET e == Head(doc) IN
         IF e.method # "parameters" /\ e.isNull THEN [threw |-> TRUE, tools |-> acc]
         ELSE IF SkipsEntry(e) THEN CollectTools(Tail(doc), mdDescription, acc)
         ELSE CollectTools(Tail(doc), mdDescription,
                           Append(acc, ToolOfEntry(e, mdDescription)))

\* Lines 107-135: the value of metadata.tools after the schema fetch
\* (None: the field stays unset).
ToolsAfterFetchKeepsEmpty(outcome, mdDescription) ==
    IF outcome.kind # "doc" THEN None
    ELSE LET r == CollectTools(outcome.doc, mdDescription, <<>>)
         IN  IF ~r.threw THEN Some(r.tools) ELSE None
ToolsAfterFetch(outcome, mdDescription) ==
    IF outcome.kind # "doc" THEN None
    ELSE LET r == CollectTools(outcome.doc, mdDescription, <<>>)
         IN  IF ~r.threw /\ Len(r.tools) > 0 THEN Some(r.tools) ELSE None

\* Lines 99-105: the metadata built from what getAPI returned.
Metadata(api) ==
    [id |-> api.publicKey, title |-> api.title, description |-> api.description,
     url |-> api.url, paymentVault |-> api.paymentVault, tools |-> None]

\* The record getAPI(id) resolves to when the provider is reachable: the
\* account stored under the key it was asked for (publicKey is that key).
ApiRecord(id, title) ==
    [publicKey |-> id, title |-> title, description |-> DescOf(id),
     url |-> UrlOf(id), paymentVault |-> VaultOf(id)]

\* Map.prototype.set on a map kept in insertion order.
MapSet(m, k, v) ==
    IF \E i \in 1..Len(m) : m[i].key = k
    THEN [i \in 1..Len(m) |-> IF m[i].key = k THEN [key |-> k, md |-> v] ELSE m[i]]
    ELSE Append(m, [key |-> k, md |-> v])

Keys(m) == {m[i].key : i \in 1..Len(m)}

\* generateToolName(title, id)
generateToolName(title, id) ==
    <<"p","o","r","t","a","l","_">> \o StripEnds(ReplaceRuns(toLowerCase(title)))
        \o <<"_">> \o Slice0(id, 4)

HasTools(md) == md.tools # None /\ Len(md.tools[1]) > 0

\* The descriptors getTools pushes for one map entry.
ListingOf(e) ==
    IF HasTools(e.md)
    THEN [i \in 1..Len(e.md.tools[1]) |->
            [name |-> e.md.tools[1][i].name,
             description |-> e.md.tools[1][i].description,
             inputSchema |-> e.md.tools[1][i].parameters]]
    ELSE << [name |-> generateToolName(e.md.title, e.key),
             description |-> e.md.description,
             inputSchema |-> DefaultSchema] >>

\* getTools() over the map m
getTools(m) == Flatten([i \in 1..Len(m) |-> ListingOf(m[i])])

\* The match findPortalAndToolByName finds in one map entry, if any.
MatchIn(e, name) ==
    IF HasTools(e.md)
    THEN LET ts == e.md.tools[1] IN
         IF \E i \in 1..Len(ts) : ts[i].name = name
         THEN Some([portal |-> e.md,
                    tool |-> Some(ts[CHOOSE i \in 1..Len(ts) :
                                     ts[i].name = name
                                     /\ \A j \in 1..(i - 1) : ts[j].name # name])])
         ELSE None
    ELSE IF generateToolName(e.md.title, e.key) = name
         THEN Some([portal |-> e.md, tool |-> None])
         ELSE None

\* findPortalAndToolByName(name) over the map m: the first entry that matches.
findPortalAndToolByName(m, name) ==
    IF \E i \in 1..Len(m) : MatchIn(m[i], name) # None
    THEN MatchIn(m[CHOOSE i \in 1..Len(m) :
                      MatchIn(m[i], name) # None
                      /\ \A j \in 1..(i - 1) : MatchIn(m[j], name) = None], name)
    ELSE None

(* ------------------------------ messages ------------------------------ *)

\* this.client.getAddress().toBase58()
WalletAddress == <<"7xK9WalletAddress">>

\* In every message a line feed, a double quote and a backslash are atoms
\* of their own ("\n", "\"", "\\"), so that JSON.stringify can escape them.

\* The Error thrown at lines 86-90.
ConfigErrorMsg ==
    << "PORTALS_WHITELIST required in MCP config.", "\n",
       "Browse available Portals: https://portalsprotocol.com/browse", "\n",
       "Add Portal IDs to your config env.PORTALS_WHITELIST" >>

\* Error.prototype.toString of an Error with the given message.
ErrorToString(message) ==
    IF message = <<>> THEN <<"Error">> ELSE <<"Error", ": ">> \o message

\* os.homedir(), PORTALS_DIR and WALLET_PATH (lines 9-10).
HomeDir == <<"/home/user">>
PortalsDir == HomeDir \o <<"/.portals">>
WalletPath == PortalsDir \o <<"/wallet.json">>

\* Messages of the errors fs.mkdirSync (line 34), PortalsClient.fromFile
\* (line 39) and PortalsClient.createNew (line 53) may throw.
MkdirErrors == { <<"ENOTDIR: not a directory, mkdir '">> \o PortalsDir \o <<"'">> }
FromFileErrors == { <<"Unexpected token">> }
CreateNewErrors == { <<"EACCES: cannot write wallet">> }

\* The Error thrown at lines 46-50 (wallet file present but unreadable);
\* `${error}` is the toString of what fromFile threw.
WalletErrorMsg(cause) ==
    <<"Failed to load wallet from ">> \o WalletPath
        \o << ". ", "File may be corrupted. Delete it manually to create a new wallet. ",
               "ERROR: " >>
        \o ErrorToString(cause)

\* A rejection of getBalance, which initialize does not catch.
BalanceErrorMsg == << "getBalance failed" >>

\* `Portal not found for tool: ${name}`
NotFoundMsg(name) == <<"Portal not found for tool: ">> \o name

\* A JSON string literal as JSON.stringify prints it inside an object: the
\* text between double quotes.
Quoted(text) == <<"\"">> \o text \o <<"\"">>

\* One Ajv error object for a missing required property, as JSON.stringify
\* prints it:
\* {"keyword":"required","dataPath":"","schemaPath":"#/required",
\*  "params":{"missingProperty":"q"},"message":"should have required property 'q'"}
RequiredError(prop) ==
    <<"{">> \o Quoted(<<"keyword">>) \o <<":">> \o Quoted(<<"required">>)
        \o <<",">> \o Quoted(<<"dataPath">>) \o <<":">> \o Quoted(<<>>)
        \o <<",">> \o Quoted(<<"schemaPath">>) \o <<":">> \o Quoted(<<"#/required">>)
        \o <<",">> \o Quoted(<<"params">>) \o <<":", "{">>
        \o Quoted(<<"missingProperty">>) \o <<":">> \o Quoted(<<prop>>) \o <<"}">>
        \o <<",">> \o Quoted(<<"message">>) \o <<":">>
        \o Quoted(<<"should have required property '", prop, "'">>) \o <<"}">>

\* `Invalid parameters: ${JSON.stringify(validate.errors)}`: the error
\* objects between brackets, a comma between two of them.
InvalidParamsMsg(missing) ==
    <<"Invalid parameters: ", "[">>
        \o Flatten([i \in 1..Len(missing) |->
                       (IF i > 1 THEN <<",">> ELSE <<>>) \o RequiredError(missing[i])])
        \o <<"]">>

MarkerSol   == <<"Insufficient SOL">>
MarkerUsdc  == <<"Insufficient USDC">>
MarkerUsdcB == <<"InsufficientUsdcBalance">>

FundingInstruction == <<"After funding, retry this request.">>

\* Lines 195-199 and 204-208.  "(x) " stands for the cross-mark emoji and
\* the space that follows it.
SolGuidance(addr) ==
    <<"(x) ">> \o MarkerSol \o <<" for gas fees", "\n", "\n", "Send SOL to: ">> \o addr
        \o <<"\n">> \o FundingInstruction
UsdcGuidance(addr) ==
    <<"(x) ">> \o MarkerUsdc \o <<" balance", "\n", "\n", "Send USDC to: ">> \o addr
        \o <<"\n">> \o FundingInstruction

\* `Portal call failed: ${errorMsg}`
CallFailedMsg(errorMsg) == <<"Portal call failed: ">> \o errorMsg

\* error.message || error.toString() || 'Unknown error'
ErrorMsgOf(message) ==
    IF message # <<>> THEN message
    ELSE IF ErrorToString(message) # <<>> THEN ErrorToString(message)
    ELSE <<"Unknown error">>

\* The catch block of callTool, lines 190-212: the message of the Error it
\* throws for a callAPI rejection carrying `message`.
DispatchErrorEchoRaw(message) ==
    LET errorMsg == ErrorMsgOf(message) IN
    IF Includes(errorMsg, MarkerSol) THEN SolGuidance(WalletAddress) \o <<"\n">> \o errorMsg
    ELSE IF Includes(errorMsg, MarkerUsdc) \/ Includes(errorMsg, MarkerUsdcB)
         THEN UsdcGuidance(WalletAddress) \o <<"\n">> \o errorMsg
    ELSE CallFailedMsg(errorMsg)
DispatchErrorOneUsdcMarker(message) ==
    LET errorMsg == ErrorMsgOf(message) IN
    IF Includes(errorMsg, MarkerSol) THEN SolGuidance(WalletAddress)
    ELSE IF Includes(errorMsg, MarkerUsdc) THEN UsdcGuidance(WalletAddress)
    ELSE CallFailedMsg(errorMsg)
DispatchError(message) ==
    LET errorMsg == ErrorMsgOf(message) IN
    IF Includes(errorMsg, MarkerSol) THEN SolGuidance(WalletAddress)
    ELSE IF Includes(errorMsg, MarkerUsdc) \/ Includes(errorMsg, MarkerUsdcB)
         THEN UsdcGuidance(WalletAddress)
    ELSE CallFailedMsg(errorMsg)

\* Messages of the errors callAPI may reject with.
RawErrors ==
    { MarkerSol,
      MarkerSol \o <<" for fee">>,
      <<"tx failed: ">> \o MarkerUsdc,
      MarkerUsdcB \o <<" (0x1)">>,
      MarkerUsdc \o <<", ">> \o MarkerSol,
      <<"socket hang up">>,
      <<>> }

\* Results callAPI may resolve to.
Payloads == { [answer |-> 42] }

(* ------------------------------ validator ----------------------------- *)

\* The argument objects of a request: the set of property names present;
\* None is a request without arguments.
ArgChoices == { None, Some({"q"}) }

\* args || {}
ArgsOrEmpty(a) == IF a = None THEN {} ELSE a[1]

\* validate.errors of ajv (allErrors: true) for a schema of required
\* properties: one error per missing property, in schema order.
ValidationSkipped(schema, args) == <<>>
ValidationErrorsFirstOnly(schema, args) ==
    LET all == SelectSeqOf(schema.required, Range(schema.required) \ args)
    IN  IF all = <<>> THEN <<>> ELSE <<all[1]>>
ValidationErrors(schema, args) ==
    SelectSeqOf(schema.required, Range(schema.required) \ args)

(* --------------------------- request handler -------------------------- *)

Returned(v) == [threw |-> FALSE, value |-> v]
Thrown(msg) == [threw |-> TRUE, value |-> msg]

\* The text of a string inside a JSON string literal: JSON.stringify writes
\* a line feed as \n, a double quote as \" and a backslash as \\.
JsonEscape(text) ==
    [i \in 1..Len(text) |->
        IF text[i] = "\n" THEN "\\n"
        ELSE IF text[i] = "\"" THEN "\\\""
        ELSE IF text[i] = "\\" THEN "\\\\"
        ELSE text[i]]

\* JSON.stringify(result, null, 2) and JSON.stringify({ error }, null, 2)
JsonOfResult(v) == <<"{\n  \"answer\": ", ToString(v.answer), "\n}">>
JsonOfError(msg) == <<"{\n  \"error\": \"">> \o JsonEscape(msg) \o <<"\"\n}">>

\* index.ts lines 33-53: what the handler does with callTool's outcome.
HandlerNoCatch(outcome) ==
    IF outcome.threw
    THEN [kind |-> "throw", isError |-> FALSE, text |-> outcome.value]
    ELSE [kind |-> "return", isError |-> FALSE, text |-> JsonOfResult(outcome.value)]
CallToolHandler(outcome) ==
    IF outcome.threw
    THEN [kind |-> "return", isError |-> TRUE, text |-> JsonOfError(outcome.value)]
    ELSE [kind |-> "return", isError |-> FALSE, text |-> JsonOfResult(outcome.value)]

(* ------------------------------ processes ----------------------------- *)

\* Request slots of the transport, and the startup flow of main().
Reqs == {"r1", "r2"}
Tasks == {"main"} \cup Reqs

\* Tool names a client may ask for: "search", "post", "portal_web_abcd"
\* and a name no provider offers.
CallNames ==
    { OpSearch, OpPost, generateToolName(TitleWeb, IdA), <<"n","o","n","e">> }

\* The inputs a run draws from: every value, for runs that serve one
\* request at a time ...
WideWorld ==
    [envs |-> EnvValues, docs |-> SchemaOutcomes, names |-> CallNames,
     args |-> ArgChoices, raws |-> RawErrors, slots |-> {"r1"}]
\* ... and a few values, for runs that serve two requests at once.
NarrowWorld ==
    [envs |-> {None, Some(IdA), Some(IdA \o <<",">> \o IdB)},
     docs |-> {[kind |-> "fail"], [kind |-> "doc", doc |-> DocSearch]},
     names |-> {OpSearch, generateToolName(TitleWeb, IdA)},
     args |-> {Some({"q"})}, raws |-> {<<"socket hang up">>}, slots |-> Reqs]

\* The locals of one flow.  Beside the locals of the code a task keeps what
\* the properties speak about: log (what happened to each id), calls (the
\* callAPI invocations made), older (the refreshes that were in progress,
\* a fetch already issued, when this request began), stale (this request
\* is back from its refresh and the registry has since been stored by a
\* refresh of older) and lost (what the registry this refresh replaced held
\* and the new one does not).
IdleTask ==
    [pc |-> "idle", kind |-> "none", name |-> <<>>, args |-> {},
     whitelist |-> <<>>, i |-> 0, newPortals |-> <<>>, metadata |-> None,
     outs |-> <<>>, log |-> <<>>, target |-> None, tool |-> None,
     calls |-> 0, raw |-> None, outcome |-> None, result |-> None,
     older |-> {}, stale |-> FALSE, lost |-> {}]

\* A finished request: only its outcome, the handler's result and the
\* number of callAPI invocations it made stay.
DoneTask(kind, calls, raw, outcome, result) ==
    [IdleTask EXCEPT !.pc = "done", !.kind = kind, !.calls = calls, !.raw = raw,
                     !.outcome = Some(outcome), !.result = Some(result)]

InitOf(W) ==
    /\ env \in W.envs
    /\ portals = <<>>
    /\ proc = "starting"
    /\ task = [t \in Tasks |->
                 IF t = "main" THEN [IdleTask EXCEPT !.pc = "init", !.kind = "main"]
                 ELSE IdleTask]
    /\ published = None

\* Line 143 is the only store to this.portals: the registry a reader can see
\* after one more provider has been handled.
RegistryAfterEachProvider(cur, np, done) == np
RegistryAfter(cur, np, done) == IF done THEN np ELSE cur

\* The for loop of lines 95-141 goes on to the next id whatever happened to
\* this one (both try blocks catch).
LoopEndsOnFailure(i, n, ok) == i >= n \/ ~ok
LoopEnds(i, n, ok) == i >= n

\* What the registry old held that the map np, built from whitelist wl with
\* the outcomes log, does not: "unreachable" (a provider of old whose
\* getAPI now failed), "noschema" (explicit tools of a provider whose schema
\* request now failed), "delisted" (a provider no longer in the whitelist).
LostBy(old, np, wl, log) ==
    {"unreachable" : k \in {h \in 1..Len(old) :
                              old[h].key \in Range(wl) /\ old[h].key \notin Keys(np)}}
    \cup {"noschema" : k \in {h \in 1..Len(old) :
                              /\ HasTools(old[h].md)
                              /\ \E i \in 1..Len(wl) :
                                    /\ wl[i] = old[h].key
                                    /\ log[i] = "noschema"
                                    /\ \A j \in (i + 1)..Len(wl) :
                                          wl[j] = wl[i] => log[j] = "unreachable"}}
    \cup {"delisted" : k \in {h \in 1..Len(old) : old[h].key \notin Range(wl)}}

\* The end of one loop iteration of refreshPortals for task t, with the map
\* np built so far: the next getAPI is awaited, or the loop is over and
\* line 143 publishes np.  how tells what happened to this id: "unreachable"
\* (getAPI rejected), "noschema" (the schema request failed or timed out) or
\* "doc" (a document was received); the task keeps it in log.
EndIteration(t, np, how) ==
    LET me == task[t]
        ok == how # "unreachable"
        done == LoopEnds(me.i, Len(me.whitelist), ok)
        mine == [me EXCEPT !.pc = IF done THEN "refreshed" ELSE "getAPI",
                           !.i = IF done THEN me.i ELSE me.i + 1,
                           !.newPortals = IF done THEN <<>> ELSE np,
                           !.metadata = None,
                           !.outs = Append(me.outs, ok),
                           !.log = Append(me.log, how),
                           !.stale = FALSE,
                           !.lost = IF done
                                    THEN LostBy(portals, np, me.whitelist,
                                                Append(me.log, how))
                                    ELSE {}]
    IN  /\ task' = [q \in Tasks |->
                      IF q = t THEN mine
                      ELSE IF done
                      THEN [task[q] EXCEPT
                              !.older = task[q].older \ {t},
                              !.stale = IF task[q].pc = "refreshed"
                                        THEN t \in task[q].older ELSE task[q].stale]
                      ELSE task[q]]
        /\ portals' = RegistryAfter(portals, np, done)
        /\ published' = IF done THEN Some(np) ELSE published

\* await this.client.getAPI(id) settles (line 97).
GetAPIReturn(t, W) ==
    /\ proc # "exited"
    /\ task[t].pc = "getAPI"
    /\ LET me == task[t]
           id == me.whitelist[me.i]
       IN  \/ \* rejected: line 139, then the next id
              EndIteration(t, me.newPortals, "unreachable")
           \/ \* resolved: lines 99-111, the schema fetch is issued
              \E title \in TitlesOf(id) :
                 /\ task' = [task EXCEPT ![t] =
                               [me EXCEPT !.pc = "schema",
                                          !.metadata = Some(Metadata(ApiRecord(id, title)))]]
                 /\ UNCHANGED <<portals, published>>
    /\ UNCHANGED <<env, proc>>

\* await axios.get(schemaUrl, ...) settles (lines 111-137).
SchemaReturn(t, W) ==
    /\ proc # "exited"
    /\ task[t].pc = "schema"
    /\ \E o \in W.docs :
          LET me == task[t]
              md == me.metadata[1]
              md2 == [md EXCEPT !.tools = ToolsAfterFetch(o, md.description)]
          IN  EndIteration(t, MapSet(me.newPortals, me.whitelist[me.i], md2),
                           IF o.kind = "doc" THEN "doc" ELSE "noschema")
    /\ UNCHANGED <<env, proc>>

\* const newPortals = new Map() (line 93): the map a refresh starts from,
\* whatever the registry cur holds.
NewPortalsFromRegistry(cur) == cur
NewPortalsAtStart(cur) == <<>>

\* refreshPortals up to its first await (lines 83-97), started from the
\* task record base: the whitelist is read and the first getAPI is issued.
RefreshStarted(base) ==
    [base EXCEPT !.pc = "getAPI", !.whitelist = ParseWhitelist(env), !.i = 1,
                 !.newPortals = NewPortalsAtStart(portals), !.outs = <<>>,
                 !.log = <<>>]

(* main() and initialize() *)

\* initialize lines 33-62: the directory is made, the wallet is loaded or
\* created, getBalance issued.  An error of mkdirSync or of createNew leaves
\* initialize as it is, an error of fromFile wrapped by lines 45-51; in each
\* case main().catch exits (index.ts 65-68).
MainLoadWallet ==
    /\ proc = "starting"
    /\ task["main"].pc = "init"
    /\ \/ \* fromFile or createNew returned
          /\ task' = [task EXCEPT !["main"].pc = "balance"]
          /\ UNCHANGED proc
       \/ \E msg \in MkdirErrors \cup CreateNewErrors
                      \cup {WalletErrorMsg(cause) : cause \in FromFileErrors} :
             /\ task' = [task EXCEPT !["main"].pc = "threw",
                                     !["main"].outcome = Some(Thrown(msg))]
             /\ proc' = "exited"
    /\ UNCHANGED <<env, portals, published>>

\* initialize lines 62-79: getBalance settles, the warnings are printed and
\* refreshPortals is called.
MainBalanceReturn ==
    /\ proc = "starting"
    /\ task["main"].pc = "balance"
    /\ \/ \* getBalance rejected
          /\ task' = [task EXCEPT !["main"].pc = "threw",
                                  !["main"].outcome = Some(Thrown(BalanceErrorMsg))]
          /\ proc' = "exited"
       \/ /\ ParseWhitelist(env) = <<>>
          /\ task' = [task EXCEPT !["main"].pc = "threw",
                                  !["main"].outcome = Some(Thrown(ConfigErrorMsg))]
          /\ proc' = "exited"
       \/ /\ ParseWhitelist(env) # <<>>
          /\ task' = [task EXCEPT !["main"] = RefreshStarted(task["main"])]
          /\ UNCHANGED proc
    /\ UNCHANGED <<env, portals, published>>

\* index.ts 59-62: initialize returned, the transport is connected.
MainConnect ==
    /\ proc = "starting"
    /\ task["main"].pc = "refreshed"
    /\ task' = [task EXCEPT !["main"] =
                  [IdleTask EXCEPT !.pc = "connected", !.kind = "main"]]
    /\ proc' = "running"
    /\ UNCHANGED <<env, portals, published>>

(* request handlers *)

CanAccept(r, W) ==
    /\ r \in W.slots
    /\ proc = "running"
    /\ task[r].pc \in {"idle", "done"}
    /\ \* a request takes the first free slot
       r = "r2" => task["r1"].pc \notin {"idle", "done"}

\* index.ts 25-28 with getTools (manager.ts 146-169), which never awaits
\* anything but its own result: the answer is { tools: getTools(portals) },
\* handed to the transport and not kept.
ListTools(r, W) ==
    /\ CanAccept(r, W)
    /\ task' = [task EXCEPT ![r] = [IdleTask EXCEPT !.pc = "done", !.kind = "list"]]
    /\ UNCHANGED <<env, portals, proc, published>>

\* The flows that are inside refreshPortals, a fetch awaited.
RefreshesInProgress == {q \in Tasks : task[q].pc \in {"getAPI", "schema"}}

\* index.ts 30-34 and callTool line 172 up to the first await of the
\* refresh; with an empty whitelist the refresh throws and the handler
\* answers at once.
CallToolStart(r, W) ==
    /\ CanAccept(r, W)
    /\ \E name \in W.names, a \in W.args :
          IF ParseWhitelist(env) = <<>>
          THEN task' = [task EXCEPT ![r] =
                          DoneTask("call", 0, None, Thrown(ConfigErrorMsg),
                                   CallToolHandler(Thrown(ConfigErrorMsg)))]
          ELSE task' = [task EXCEPT ![r] =
                          RefreshStarted([IdleTask EXCEPT !.kind = "call", !.name = name,
                                                          !.args = ArgsOrEmpty(a),
                                                          !.older = RefreshesInProgress])]
    /\ UNCHANGED <<env, portals, proc, published>>

\* callTool lines 174-189: the refresh has returned; resolve, validate and
\* issue callAPI.
CallToolResume(r) ==
    /\ proc = "running"
    /\ task[r].pc = "refreshed"
    /\ task[r].kind = "call"
    /\ LET me == task[r]
           found == findPortalAndToolByName(portals, me.name)
       IN  IF found = None
           THEN task' = [task EXCEPT ![r] =
                           DoneTask("call", me.calls, None, Thrown(NotFoundMsg(me.name)),
                                    CallToolHandler(Thrown(NotFoundMsg(me.name))))]
           ELSE LET tool == found[1].tool
                    errs == IF tool = None THEN <<>>
                            ELSE ValidationErrors(tool[1].parameters, me.args)
                IN  IF errs # <<>>
                    THEN task' = [task EXCEPT ![r] =
                                    DoneTask("call", me.calls, None, Thrown(InvalidParamsMsg(errs)),
                                             CallToolHandler(Thrown(InvalidParamsMsg(errs))))]
                    ELSE task' = [task EXCEPT ![r] =
                                    [me EXCEPT !.pc = "callAPI", !.outs = <<>>, !.log = <<>>,
                                               !.calls = me.calls + 1,
                                               !.older = {}, !.stale = FALSE,
                                               !.lost = {},
                                               !.target = Some(found[1].portal.id),
                                               !.tool = IF tool = None THEN None
                                                        ELSE Some(tool[1].name)]]
    /\ UNCHANGED <<env, portals, proc, published>>

\* Lines 190-212: callAPI rejected with `raw`; the catch block throws the
\* classified error and the invocation is over (nothing is tried again).
AfterDispatchFailureRetries(me, raw) ==
    IF me.calls < 2 THEN [me EXCEPT !.calls = me.calls + 1]
    ELSE DoneTask("call", me.calls, Some(raw), Thrown(DispatchError(raw)),
                  CallToolHandler(Thrown(DispatchError(raw))))
AfterDispatchFailure(me, raw) ==
    DoneTask("call", me.calls, Some(raw), Thrown(DispatchError(raw)),
             CallToolHandler(Thrown(DispatchError(raw))))

\* await this.client.callAPI(...) settles (lines 189-212), and the handler
\* builds its answer.
CallAPIReturn(r, W) ==
    /\ proc = "running"
    /\ task[r].pc = "callAPI"
    /\ \/ \E v \in Payloads :
             task' = [task EXCEPT ![r] =
                        DoneTask("call", task[r].calls, None, Returned(v),
                                 CallToolHandler(Returned(v)))]
       \/ \E raw \in W.raws :
             task' = [task EXCEPT ![r] = AfterDispatchFailure(task[r], raw)]
    /\ UNCHANGED <<env, portals, proc, published>>

\* The configuration the process reads at every refresh changes.
EnvChange(W) ==
    /\ proc # "exited"
    /\ \E e \in W.envs \ {env} : env' = e
    /\ UNCHANGED <<portals, proc, task, published>>

NextOf(W) ==
    \/ MainLoadWallet
    \/ MainBalanceReturn
    \/ MainConnect
    \/ \E t \in Tasks : GetAPIReturn(t, W)
    \/ \E t \in Tasks : SchemaReturn(t, W)
    \/ \E r \in Reqs : ListTools(r, W)
    \/ \E r \in Reqs : CallToolStart(r, W)
    \/ \E r \in Reqs : CallToolResume(r)
    \/ \E r \in Reqs : CallAPIReturn(r, W)
    \/ EnvChange(W)

\* Requests served one at a time, over every input.
Init == InitOf(WideWorld)
Next == NextOf(WideWorld)
Spec == Init /\ [][Next]_vars

\* Two requests in flight at once, interleaved at every await.
InitConcurrent == InitOf(NarrowWorld)
NextConcurrent == NextOf(NarrowWorld)
SpecConcurrent == InitConcurrent /\ [][NextConcurrent]_vars

(* ------------------------------- claims ------------------------------- *)

\* C1: a refresh that completes with a non-empty whitelist W has handled
\* every position of W (a failure never stops the loop), publishes exactly
\* the ids of W whose getAPI succeeded, and getTools lists at least one tool
\* for every provider of the published snapshot.  (Stated where the refresh
\* has just returned; with one request served at a time the registry is
\* then the map this refresh stored.)
C1_RefreshPublishesReachable ==
    \A t \in Tasks :
       task[t].pc = "refreshed" =>
          LET wl == task[t].whitelist
              outs == task[t].outs
              listed == getTools(portals)
          IN  /\ Len(wl) > 0
              /\ Len(outs) = Len(wl)
              /\ Keys(portals) = {wl[i] : i \in {j \in 1..Len(wl) : outs[j]}}
              /\ \A k \in 1..Len(portals) :
                    LET own == ListingOf(portals[k]) IN
                    \E n \in 1..Len(listed), m \in 1..Len(own) : listed[n] = own[m]
              /\ Len(listed) >= Len(portals)

\* C1 witness: a finished refresh whose first id failed and whose second id
\* was still fetched and published.
C1_Witness ==
    \E t \in Tasks :
       /\ task[t].pc = "refreshed"
       /\ task[t].whitelist = <<IdA, IdB>>
       /\ task[t].outs = <<FALSE, TRUE>>
       /\ Keys(portals) = {IdB}

\* A step in which request r reads the registry: the listing loop of
\* getTools or the scan of findPortalAndToolByName.
ReadsRegistry(r) ==
    \/ task'[r].kind = "list" /\ task'[r].pc = "done" /\ task'[r] # task[r]
    \/ task[r].kind = "call" /\ task[r].pc = "refreshed" /\ task'[r].pc # "refreshed"

\* C2: whenever a request reads the registry, the map it reads is the
\* complete output of one finished refresh (the latest one to finish),
\* whatever the other requests' refreshes have built so far.
C2_ReadsSeeCompleteSnapshot ==
    [][\A r \in Reqs : ReadsRegistry(r) => published = Some(portals)]_vars

\* C2 witness: a call has resolved its name while another request's refresh
\* is half-way, holding a map that differs from the registry.
C2_Witness ==
    \E r, q \in Reqs :
       /\ r # q
       /\ task[r].pc = "callAPI"
       /\ task[q].pc \in {"getAPI", "schema"}
       /\ task[q].newPortals # <<>>
       /\ task[q].newPortals # portals

\* C3: the names getTools exposes for the published snapshot are pairwise
\* distinct.
C3_ToolNamesDistinct ==
    proc = "running" =>
       \A i, j \in 1..Len(getTools(portals)) :
          i # j => getTools(portals)[i].name # getTools(portals)[j].name

\* C4: resolving the exact name of any descriptor of the snapshot returns
\* the provider and the tool the name came from.
C4_ResolutionRoundTrip ==
    proc = "running" =>
       \A k \in 1..Len(portals) :
          LET e == portals[k] IN
          IF HasTools(e.md)
          THEN \A i \in 1..Len(e.md.tools[1]) :
                  findPortalAndToolByName(portals, e.md.tools[1][i].name)
                     = Some([portal |-> e.md, tool |-> Some(e.md.tools[1][i])])
          ELSE findPortalAndToolByName(portals, generateToolName(e.md.title, e.key))
                  = Some([portal |-> e.md, tool |-> None])

\* JSON.parse(text).error for an answer text of the form { "error": "..." }:
\* the string between the quotes with \n, \" and \\ read back.
ErrorFieldOf(text) ==
    IF Len(text) >= 2 /\ text[1] = "{\n  \"error\": \"" /\ text[Len(text)] = "\"\n}"
    THEN Some([i \in 1..(Len(text) - 2) |->
                 IF text[i + 1] = "\\n" THEN "\n"
                 ELSE IF text[i + 1] = "\\\"" THEN "\""
                 ELSE IF text[i + 1] = "\\\\" THEN "\\"
                 ELSE text[i + 1]])
    ELSE None

\* C5: every finished callTool request was answered by a returned result:
\* tagged isError and carrying the message (the error field of the JSON
\* text of the answer) when callTool threw, untagged when it returned; and
\* once the server is connected the process never exits.
C5_HandlerNeverThrows ==
    /\ \A r \in Reqs :
          (task[r].pc = "done" /\ task[r].kind = "call") =>
             LET out == task[r].outcome[1]
                 res == task[r].result[1]
             IN  /\ res.kind = "return"
                 /\ out.threw => (res.isError /\ ErrorFieldOf(res.text) = Some(out.value))
                 /\ ~out.threw => ~res.isError
    /\ task["main"].pc = "connected" => proc = "running"

\* C5 witness: a call that failed inside callAPI has been answered.
C5_Witness ==
    \E r \in Reqs :
       /\ task[r].pc = "done"
       /\ task[r].kind = "call"
       /\ task[r].raw = Some(<<"socket hang up">>)
       /\ task[r].result[1].isError

\* C6: the configuration error of an empty whitelist never ends the process,
\* the refresh of initialize included.
C6_ConfigErrorNeverExits ==
    ~(proc = "exited" /\ task["main"].outcome = Some(Thrown(ConfigErrorMsg)))

\* The whitelist variable is unset, empty or made of commas only.
IsEmptyConfig(e) == e = None \/ \A i \in 1..Len(e[1]) : e[1][i] = ","

\* A step in which task t calls refreshPortals.
CallsRefresh(t) ==
    \/ /\ t = "main"
       /\ task[t].pc = "balance"
       /\ task'[t].pc # "balance"
       /\ task'[t].outcome # Some(Thrown(BalanceErrorMsg))
    \/ /\ t \in Reqs
       /\ task[t].pc \in {"idle", "done"}
       /\ task'[t].kind = "call"
       /\ task'[t] # task[t]

\* C7: a refresh called while the whitelist is unset, "" or only commas
\* raises the configuration error and leaves the published snapshot as it
\* was (so it publishes nothing, an empty snapshot included).
C7_EmptyWhitelistRaises ==
    [][\A t \in Tasks :
          (CallsRefresh(t) /\ IsEmptyConfig(env)) =>
             /\ task'[t].outcome = Some(Thrown(ConfigErrorMsg))
             /\ task'[t].pc \in {"done", "threw"}
             /\ portals' = portals
             /\ published' = published]_vars

\* C7 witness: a call refused for a whitelist of commas, the snapshot
\* published before still in place.
C7_Witness ==
    /\ env = Some(<<",">>)
    /\ portals # <<>>
    /\ \E r \in Reqs :
          /\ task[r].pc = "done"
          /\ task[r].outcome = Some(Thrown(ConfigErrorMsg))

\* The text of a callAPI error carries one of the payment markers.
IsPaymentError(raw) ==
    \/ Includes(ErrorMsgOf(raw), MarkerSol)
    \/ Includes(ErrorMsgOf(raw), MarkerUsdc)
    \/ Includes(ErrorMsgOf(raw), MarkerUsdcB)

\* C8 as stated: for a payment error the reported message contains the
\* wallet address and the funding instruction and does not contain the raw
\* collaborator text.
C8_NoRawText ==
    \A r \in Reqs :
       (task[r].pc = "done" /\ task[r].raw # None /\ IsPaymentError(task[r].raw[1])) =>
          LET msg == task[r].outcome[1].value IN
          /\ task[r].outcome[1].threw
          /\ Includes(msg, WalletAddress)
          /\ Includes(msg, FundingInstruction)
          /\ ~Includes(msg, ErrorMsgOf(task[r].raw[1]))

\* C8 amended: for a payment error the reported message is exactly one of
\* the two fixed guidance texts (wallet address and funding instruction
\* included), so it contains the raw text only when the raw text is itself
\* a fragment of that fixed text.
C8_FixedGuidance ==
    \A r \in Reqs :
       (task[r].pc = "done" /\ task[r].raw # None /\ IsPaymentError(task[r].raw[1])) =>
          LET msg == task[r].outcome[1].value
              rawText == ErrorMsgOf(task[r].raw[1])
              sol == <<"(x) ", "Insufficient SOL", " for gas fees", "\n", "\n", "Send SOL to: ">>
                        \o WalletAddress \o <<"\n", "After funding, retry this request.">>
              usdc == <<"(x) ", "Insufficient USDC", " balance", "\n", "\n", "Send USDC to: ">>
                        \o WalletAddress \o <<"\n", "After funding, retry this request.">>
          IN  /\ task[r].outcome[1].threw
              /\ Includes(msg, WalletAddress)
              /\ Includes(msg, FundingInstruction)
              /\ msg \in {sol, usdc}
              /\ (~Includes(sol, rawText) /\ ~Includes(usdc, rawText))
                    => ~Includes(msg, rawText)

\* C8 witness: "Insufficient SOL for fee" was answered with the SOL guidance.
C8_Witness ==
    \E r \in Reqs :
       /\ task[r].pc = "done"
       /\ task[r].raw = Some(MarkerSol \o <<" for fee">>)
       /\ task[r].outcome[1].threw
       /\ Includes(task[r].outcome[1].value, <<"Send SOL to: ">> \o WalletAddress)

\* C9: every callAPI a callTool issues targets an id of the whitelist that
\* this callTool's own refresh read.
C9_WhitelistOnlyDispatch ==
    \A r \in Reqs :
       task[r].pc = "callAPI" => task[r].target[1] \in Range(task[r].whitelist)

\* C10: two providers of a snapshot with different ids have different
\* generated names.
C10_GeneratedNamesInjective ==
    \A i, j \in 1..Len(portals) :
       portals[i].key # portals[j].key =>
          generateToolName(portals[i].md.title, portals[i].key)
             # generateToolName(portals[j].md.title, portals[j].key)

\* The map a refresh of task t would hold after the schema fetch it is
\* waiting for settles with outcome o.
MapAfterSchema(t, o) ==
    LET me == task[t]
        md == me.metadata[1]
    IN  MapSet(me.newPortals, me.whitelist[me.i],
               [md EXCEPT !.tools = ToolsAfterFetch(o, md.description)])

\* C11: for every provider whose schema fetch is awaited, a fetch that
\* fails, a fetch that times out and a document with an empty paths map
\* give the same snapshot entry, the same listing (one synthesized tool
\* with the generated name and the empty-object schema) and the same
\* resolution of that name (the provider, without a tool).
C11_FetchFailureEqualsEmptyPaths ==
    \A t \in Tasks :
       task[t].pc = "schema" =>
          LET id == task[t].whitelist[task[t].i]
              md == task[t].metadata[1]
              name == generateToolName(md.title, id)
              failed == MapAfterSchema(t, [kind |-> "fail"])
              timedOut == MapAfterSchema(t, [kind |-> "timeout"])
              empty == MapAfterSchema(t, [kind |-> "doc", doc |-> DocEmpty])
              at(m) == CHOOSE k \in 1..Len(m) : m[k].key = id
          IN  /\ failed = empty
              /\ timedOut = empty
              /\ \A m \in {failed, timedOut, empty} :
                    /\ m[at(m)].md.tools = None
                    /\ ListingOf(m[at(m)])
                          = << [name |-> name, description |-> md.description,
                                inputSchema |-> [required |-> <<>>]] >>
                    /\ MatchIn(m[at(m)], name) = Some([portal |-> m[at(m)].md, tool |-> None])
              /\ getTools(failed) = getTools(empty)
              /\ getTools(timedOut) = getTools(empty)
              /\ findPortalAndToolByName(failed, name) = findPortalAndToolByName(empty, name)
              /\ findPortalAndToolByName(timedOut, name) = findPortalAndToolByName(empty, name)

\* C11 witness: a refresh has finished in which the schema request of the
\* only provider failed, and the snapshot lists its synthesized tool.
C11_Witness ==
    \E t \in Tasks :
       /\ task[t].pc = "refreshed"
       /\ task[t].whitelist = <<IdA>>
       /\ task[t].log = <<"noschema">>
       /\ Len(portals) = 1
       /\ portals[1].md.tools = None
       /\ getTools(portals)
             = << [name |-> generateToolName(TitleWeb, IdA), description |-> DescOf(IdA),
                   inputSchema |-> DefaultSchema] >>

\* C12: a callTool invocation invokes callAPI at most once, whatever fails,
\* and ends in one terminal result: while it runs it has no result, and
\* once it is over it has exactly one outcome (a payload or an error) and
\* the one answer the handler built from it; an invocation that failed in
\* refresh, resolution or validation has not invoked callAPI, one that
\* failed in dispatch has invoked it once.
C12_AtMostOneCallAPI ==
    \A r \in Reqs :
       task[r].kind = "call" =>
          /\ task[r].calls <= 1
          /\ task[r].pc \in {"getAPI", "schema", "refreshed"} =>
                (task[r].calls = 0 /\ task[r].outcome = None /\ task[r].result = None)
          /\ task[r].pc = "callAPI" =>
                (task[r].calls = 1 /\ task[r].outcome = None /\ task[r].result = None)
          /\ task[r].pc = "done" =>
                /\ Len(task[r].outcome) = 1
                /\ Len(task[r].result) = 1
                /\ task[r].result[1].kind = "return"
                /\ task[r].result[1].isError = task[r].outcome[1].threw
                /\ task[r].calls = IF task[r].raw # None \/ ~task[r].outcome[1].threw
                                   THEN 1 ELSE 0

\* C12 witness: a call whose one callAPI was rejected is over, answered with
\* the reported error.
C12_Witness ==
    \E r \in Reqs :
       /\ task[r].pc = "done"
       /\ task[r].kind = "call"
       /\ task[r].calls = 1
       /\ task[r].raw = Some(<<"socket hang up">>)
       /\ task[r].outcome = Some(Thrown(<<"Portal call failed: ", "socket hang up">>))

\* A step in which request r, back from its refresh, resolves its name and
\* validates its arguments.
ResolvesAndValidates(r) ==
    /\ task[r].kind = "call"
    /\ task[r].pc = "refreshed"
    /\ task'[r].pc # "refreshed"

\* C13: when the resolved tool carries a parameter schema, arguments that
\* miss required properties are rejected, before any callAPI, with an
\* "Invalid parameters" error that holds one error object for every missing
\* property (all of them, not only the first), and arguments that satisfy
\* the schema go on to callAPI.
C13_ValidationRejectsAndEnumerates ==
    [][\A r \in Reqs :
          ResolvesAndValidates(r) =>
             LET found == findPortalAndToolByName(portals, task[r].name) IN
             (found # None /\ found[1].tool # None) =>
                LET required == found[1].tool[1].parameters.required
                    missing == {required[i] : i \in 1..Len(required)} \ task[r].args
                IN  IF missing # {}
                    THEN /\ task'[r].pc = "done"
                         /\ task'[r].calls = 0
                         /\ task'[r].outcome[1].threw
                         /\ SubSeq(task'[r].outcome[1].value, 1, 1) = <<"Invalid parameters: ">>
                         /\ \A p \in missing :
                               Includes(task'[r].outcome[1].value,
                                        << "\"", "missingProperty", "\"", ":", "\"", p, "\"" >>)
                         /\ Cardinality({i \in 1..Len(task'[r].outcome[1].value) :
                                           task'[r].outcome[1].value[i] = "missingProperty"})
                               = Cardinality(missing)
                    ELSE task'[r].pc = "callAPI"]_vars

\* C13 witness: a call without arguments to a tool that requires q and n
\* was rejected with both violations listed.
C13_Witness ==
    \E r \in Reqs :
       /\ task[r].pc = "done"
       /\ task[r].kind = "call"
       /\ task[r].calls = 0
       /\ task[r].outcome[1].threw
       /\ task[r].outcome[1].value[1] = "Invalid parameters: "
       /\ Includes(task[r].outcome[1].value,
                   << "\"", "missingProperty", "\"", ":", "\"", "q", "\"" >>)
       /\ Includes(task[r].outcome[1].value,
                   << "\"", "missingProperty", "\"", ":", "\"", "n", "\"" >>)

\* C14: callAPI is invoked only by an invocation that is back from a
\* refresh that handled its whole non-empty whitelist and published,
\* whose name resolves in the registry to the provider it dispatches to,
\* and whose arguments have every property the resolved tool requires;
\* an invocation whose refresh raises, whose name is unknown or whose
\* arguments fail validation ends without having invoked callAPI.
C14_DispatchOnlyAfterChecks ==
    [][\A r \in Reqs :
          LET found == findPortalAndToolByName(portals, task[r].name)
              valid == found[1].tool # None =>
                          \A i \in 1..Len(found[1].tool[1].parameters.required) :
                             found[1].tool[1].parameters.required[i] \in task[r].args
          IN  /\ task'[r].calls > task[r].calls =>
                    /\ task[r].kind = "call"
                    /\ task[r].pc = "refreshed"
                    /\ Len(task[r].whitelist) > 0
                    /\ Len(task[r].log) = Len(task[r].whitelist)
                    /\ published = Some(portals)
                    /\ found # None
                    /\ valid
                    /\ task'[r].pc = "callAPI"
                    /\ task'[r].calls = 1
                    /\ task'[r].target = Some(found[1].portal.id)
              /\ (CallsRefresh(r) /\ IsEmptyConfig(env)) =>
                    (task'[r].pc = "done" /\ task'[r].calls = 0)
              /\ (ResolvesAndValidates(r) /\ (found = None \/ ~valid)) =>
                    (task'[r].pc = "done" /\ task'[r].calls = 0)]_vars

\* C14 witness: callAPI has been invoked for "search" with arguments { q }
\* after the refresh, the resolution and the validation.
C14_Witness ==
    \E r \in Reqs :
       /\ task[r].pc = "callAPI"
       /\ task[r].calls = 1
       /\ task[r].name = OpSearch
       /\ task[r].tool = Some(OpSearch)
       /\ task[r].args = {"q"}
       /\ task[r].target = Some(IdA)

\* C15: whenever a callTool resolves its name, in every interleaving with
\* other requests, the registry it reads was stored by a refresh that began
\* after this callTool began, so every getAPI and schema fetch behind it
\* was issued after the call arrived.
C15_ResolvesAgainstFreshSnapshot ==
    [][\A r \in Reqs : ResolvesAndValidates(r) => ~task[r].stale]_vars

\* The keys of an OpenAPI path item that name an operation.
HttpVerbs == {"get", "put", "post", "delete", "options", "head", "patch", "trace"}

\* C16: every explicit tool of the snapshot is the descriptor of an entry
\* whose key is an HTTP verb and that declares an operationId, in a
\* document a provider serves: an entry under another key ('parameters',
\* 'servers', ...) yields no tool even when it carries an operationId.
C16_OnlyVerbEntriesYieldTools ==
    \A k \in 1..Len(portals) :
       HasTools(portals[k].md) =>
          \A i \in 1..Len(portals[k].md.tools[1]) :
             \E d \in Docs : \E j \in 1..Len(d) :
                /\ d[j].method \in HttpVerbs
                /\ ~d[j].isNull
                /\ d[j].operationId # None
                /\ d[j].operationId[1] # <<>>
                /\ portals[k].md.tools[1][i].name = d[j].operationId[1]
                /\ portals[k].md.tools[1][i].parameters
                      = IF d[j].schema # None THEN d[j].schema[1] ELSE [required |-> <<>>]

\* C17: for every name a provider's explicit tools carry, the snapshot
\* holds one descriptor under that name, and both the listing and the
\* resolution of the name give the description and the parameter schema
\* of the operation declared last under it.
C17_DuplicateOperationIdLastWins ==
    \A k \in 1..Len(portals) :
       HasTools(portals[k].md) =>
          LET ts == portals[k].md.tools[1]
              listed == ListingOf(portals[k])
          IN  \A i \in 1..Len(ts) :
                 LET same == {j \in 1..Len(ts) : ts[j].name = ts[i].name}
                     last == CHOOSE j \in same : \A h \in same : h <= j
                 IN  /\ Cardinality(same) = 1
                     /\ \A n \in 1..Len(listed) :
                           listed[n].name = ts[i].name =>
                              /\ listed[n].description = ts[last].description
                              /\ listed[n].inputSchema = ts[last].parameters
                     /\ MatchIn(portals[k], ts[i].name)
                           = Some([portal |-> portals[k].md, tool |-> Some(ts[last])])

\* C18: the snapshot a refresh publishes holds exactly the ids of the
\* whitelist it read whose getAPI succeeded in this refresh (so a provider
\* that is no longer whitelisted, or whose getAPI fails now, is absent
\* whatever the snapshot before held), and a provider whose schema request
\* failed in this refresh has no explicit tools, only its synthesized one
\* (explicit tools are there only if a document was received this time).
\* (Stated where the refresh has just returned, one request served at a
\* time.)
C18_SnapshotFromThisRefreshOnly ==
    \A t \in Tasks :
       task[t].pc = "refreshed" =>
          LET wl == task[t].whitelist
              log == task[t].log
          IN  /\ Len(log) = Len(wl)
              /\ Keys(portals) = {wl[i] : i \in {j \in 1..Len(wl) : log[j] # "unreachable"}}
              /\ \A k \in 1..Len(portals) :
                    LET mine == {i \in 1..Len(wl) :
                                   wl[i] = portals[k].key /\ log[i] # "unreachable"}
                        last == CHOOSE i \in mine : \A j \in mine : j <= i
                    IN  /\ portals[k].md.id = portals[k].key
                        /\ portals[k].md.tools # None => log[last] = "doc"
                        /\ log[last] = "noschema" =>
                              /\ portals[k].md.tools = None
                              /\ Len(ListingOf(portals[k])) = 1
                              /\ ListingOf(portals[k])[1].name
                                    = generateToolName(portals[k].md.title, portals[k].key)

\* C18 witness: a refresh has replaced a snapshot that held a provider now
\* off the whitelist and explicit tools of a provider whose schema request
\* failed this time.
C18_Witness ==
    \E t \in Tasks :
       /\ task[t].pc = "refreshed"
       /\ {"noschema", "delisted"} \subseteq task[t].lost
       /\ \A k \in 1..Len(portals) : portals[k].md.tools = None

\* C18, the provider that stopped answering: it was in the snapshot before,
\* is still whitelisted, and is absent after the refresh.
C18_WitnessUnreachable ==
    \E t \in Tasks :
       /\ task[t].pc = "refreshed"
       /\ task[t].whitelist = <<IdA>>
       /\ task[t].lost = {"unreachable"}
       /\ portals = <<>>

\* C19: every callAPI failure is reported in exactly one of three forms,
\* the SOL guidance, the USDC guidance or "Portal call failed: " followed
\* by text; the third form is used exactly when the error text holds none
\* of the three payment markers, and what follows the prefix is then the
\* error text itself, unchanged.  (The text of an Error with an empty
\* message is what its toString gives, "Error".)
C19_ClassificationTotalExclusive ==
    \A r \in Reqs :
       (task[r].pc = "done" /\ task[r].raw # None) =>
          LET msg == task[r].outcome[1].value
              text == IF task[r].raw[1] # <<>> THEN task[r].raw[1] ELSE <<"Error">>
              sol == <<"(x) ", "Insufficient SOL", " for gas fees", "\n", "\n", "Send SOL to: ">>
                        \o WalletAddress \o <<"\n", "After funding, retry this request.">>
              usdc == <<"(x) ", "Insufficient USDC", " balance", "\n", "\n", "Send USDC to: ">>
                        \o WalletAddress \o <<"\n", "After funding, retry this request.">>
              generic == Len(msg) >= 1 /\ msg[1] = "Portal call failed: "
              marked == \/ Includes(text, <<"Insufficient SOL">>)
                        \/ Includes(text, <<"Insufficient USDC">>)
                        \/ Includes(text, <<"InsufficientUsdcBalance">>)
          IN  /\ task[r].outcome[1].threw
              /\ Cardinality({f \in {"sol", "usdc", "generic"} :
                                \/ f = "sol" /\ msg = sol
                                \/ f = "usdc" /\ msg = usdc
                                \/ f = "generic" /\ generic}) = 1
              /\ generic <=> ~marked
              /\ generic => msg = <<"Portal call failed: ">> \o text

\* C19 witness: "InsufficientUsdcBalance (0x1)" was reported with the USDC
\* guidance, not in the generic envelope.
C19_Witness ==
    \E r \in Reqs :
       /\ task[r].pc = "done"
       /\ task[r].raw = Some(<<"InsufficientUsdcBalance", " (0x1)">>)
       /\ task[r].outcome[1].threw
       /\ Includes(task[r].outcome[1].value, <<"Send USDC to: ">> \o WalletAddress)
       /\ task[r].outcome[1].value[1] # "Portal call failed: "

====
